---- MODULE Spec2Model ----
(***************************************************************************)
(* Model of the terminal view component CLIStyleApp of src/app/page.tsx.   *)
(* The file holds two revisions of the component: the "links" revision     *)
(* (lines 1-413) and the "gigs" revision (lines 415-747).  The variable    *)
(* variant says which one runs; everything else is the component's React   *)
(* state, the queue of pending setTimeout callbacks, the input focus and   *)
(* the keydown listeners that the component has registered on window.      *)
(* Every event handler runs to completion and React commits its state      *)
(* updates before the next event (one thread of control), so a handler is  *)
(* one action.                                                             *)
(***************************************************************************)
EXTENDS Integers, Sequences, FiniteSets, TLC

VARIABLES
    variant,         \* "links" (page.tsx:1-413) or "gigs" (page.tsx:415-747)
    currentView,     \* useState<View>("main")
    commandHistory,  \* useState<string[]>([])
    historyIndex,    \* useState(-1), 0-based position in commandHistory
    input,           \* useState(""), the input buffer
    output,          \* useState<string[]>([]), the output log
    activePlayer,    \* gigs: activePlayer; links: showSoundCloud <=> "soundcloud"
    iframeError,     \* useState(false)
    playing,         \* gigs: useState(false)
    visuals,         \* gigs: useState(true)
    timers,          \* pending setTimeout callbacks of runCommand, oldest first
    focused,         \* document.activeElement === inputRef.current
    mounted,         \* the component is mounted
    listeners,       \* the keydown listeners of the component on window, each
                     \* named by the currentView its closure holds
    outbound,        \* the calls of window.open and the assignments to
                     \* window.location.href made so far, oldest first
    outSrc,          \* history: for each line of output, <<submission, kind>>
    lastEvent,       \* history: the handler that ran last ("other" for the
                     \* handlers of Unwatched when watch is "none")
    run,             \* history: lengths of the current run of navigation keys
    wiped,           \* history: the submissions that were pending at a
                     \* Ctrl+L (recorded when watch is "clear")
    watch            \* "nav" when run is recorded, "off" when neither run nor
                     \* lastEvent is recorded, "keys" when lastEvent also
                     \* tells a Tab with a modifier key held, "clear" when
                     \* wiped is recorded and lastEvent is not, else "none"

vars == <<variant, currentView, commandHistory, historyIndex, input, output,
          activePlayer, iframeError, playing, visuals, timers, focused,
          mounted, listeners, outbound, outSrc, lastEvent, run, wiped,
          watch>>

-----------------------------------------------------------------------------
(* Bounds of the model. *)

\* Non-empty commands submitted in one behaviour.
MaxSubmits == 2

\* Texts the user puts into the input field (onChange).
InputTexts == {"  ", " sc ", "c", "foo"}

\* The same for the behaviours that record the runs of navigation keys.
NavTexts == {"foo", " sc"}

\* The same for the behaviours with the help command.
HelpTexts == {" help", "h", "sc"}

\* The same for the behaviours that record the modifier keys.
KeyTexts == {" sc ", "c"}

\* The same for the behaviours with the unmount of the component.
MountTexts == {"sc"}

\* The same for the behaviours with inputs that come close to a keyword.
ExactTexts == {"sc", "SC", "he"}

\* The same for the behaviours with the visuals command.
VisualTexts == {"v", "sc"}

\* The same for the behaviours with a clear among pending commands.
ClearTexts == {"c", "sc"}

\* The same for the behaviours with the external-link commands.
LinkTexts == {" bc", "ig", "au", "e", "sc"}

\* The same for the behaviours with an external-link command and the
\* unmount of the component.
GoneTexts == {"ig", "e", "sc"}

\* The same for the behaviours of the two embedded players.
PlayerTexts == {"sc", " bc"}

-----------------------------------------------------------------------------
(* Strings. *)

CharAt(s, i) == SubSeq(s, i, i)

IsWhiteSpace(c) == c \in {" ", "\t"}

RECURSIVE TrimStart(_)
TrimStart(s) ==
    IF Len(s) > 0 /\ IsWhiteSpace(CharAt(s, 1))
    THEN TrimStart(SubSeq(s, 2, Len(s)))
    ELSE s

RECURSIVE TrimEnd(_)
TrimEnd(s) ==
    IF Len(s) > 0 /\ IsWhiteSpace(CharAt(s, Len(s)))
    THEN TrimEnd(SubSeq(s, 1, Len(s) - 1))
    ELSE s

\* A trim that strips nothing.
TrimNothing(s) == s

\* String.prototype.trim
Trim(s) == TrimEnd(TrimStart(s))

\* String.prototype.toLowerCase, for the letters A to Z
ToLowerCaseChar(c) ==
    LET upper == "ABCDEFGHIJKLMNOPQRSTUVWXYZ"
        lower == "abcdefghijklmnopqrstuvwxyz"
    IN IF \E i \in 1..Len(upper) : CharAt(upper, i) = c
       THEN CharAt(lower, CHOOSE i \in 1..Len(upper) : CharAt(upper, i) = c)
       ELSE c

RECURSIVE ToLowerCase(_)
ToLowerCase(s) ==
    IF s = "" THEN ""
    ELSE ToLowerCaseChar(CharAt(s, 1)) \o ToLowerCase(SubSeq(s, 2, Len(s)))

-----------------------------------------------------------------------------
(* The texts of runCommand.  Characters outside ASCII are written in ASCII: *)
(* the arrows of the help text as ^ and v, the dash as -, the play and     *)
(* pause signs as > and ||.                                                *)

SOCIAL_LINKS ==
    [bandcamp   |-> "https://citizensciencemusic.bandcamp.com/",
     instagram  |-> "https://www.instagram.com/citizensciencemusic/",
     audius     |-> "https://audius.co/citizensciencemusic",
     soundcloud |-> "https://soundcloud.com/citizen-science-268058692",
     email      |-> "mailto:info@citizensciencemusic.com"]

HelpLinks ==
    <<"Available commands:",
      "  help, h          - Show this help",
      "  links, l         - Show all links",
      "  soundcloud, sc   - Show SoundCloud player",
      "  bandcamp, bc     - Open Bandcamp link",
      "  instagram, ig    - Open Instagram link",
      "  audius, au       - Open Audius link",
      "  email, e         - Open email client",
      "  about, a         - About Citizen Science",
      "  clear, c         - Clear screen",
      "",
      "Navigation:",
      "  Tab              - Switch views",
      "  ^/v              - Navigate command history",
      "  Esc              - Clear input",
      "  Ctrl+L           - Clear output">>

HelpGigs ==
    <<"Available commands:",
      "  help, h          - Show this help",
      "  bandcamp, bc     - Show Bandcamp player",
      "  soundcloud, sc   - Show SoundCloud player",
      "  gigs, g          - Show upcoming gigs",
      "  about, a         - About Citizen Science",
      "  visuals, v       - Toggle visuals",
      "  clear, c         - Clear screen",
      "",
      "Navigation:",
      "  Tab              - Switch views",
      "  ^/v              - Navigate command history",
      "  Esc              - Clear input",
      "  Ctrl+L           - Clear output">>

AboutLinks ==
    <<"Citizen Science",
      "Sonic meditations. Oscillating the mind with sound...">>

AboutGigs ==
    <<"Citizen Science",
      "Hypnotic techno. Live performances, sample packs, and experimental synth work.",
      "",
      "Press Tab to navigate between views.">>

GigsLines ==
    <<"Upcoming gigs:",
      "  2026-01-15  R1, Berlin",
      "  2026-02-12  LOFT, Munich",
      "  2026-03-20  Tresor, Berlin">>

\* An echo line without the prompt.
EchoLineNoPrompt(trimmed) == trimmed

\* `$ ${trimmed}`
EchoLine(trimmed) == "$ " \o trimmed

\* A "command not found" line that does not name the input.
NotFoundLineUnnamed(trimmed) ==
    "Command not found. Type 'help' for available commands."

NotFoundLine(trimmed) ==
    "Command not found: " \o trimmed \o ". Type 'help' for available commands."

\* The ordered list of the Tab handler.
views ==
    IF variant = "links"
    THEN <<"main", "links", "player", "about">>
    ELSE <<"main", "player", "gigs", "about">>

\* Array.prototype.indexOf, 0-based, -1 when absent
indexOf(arr, x) ==
    IF \E i \in 1..Len(arr) : arr[i] = x
    THEN (CHOOSE i \in 1..Len(arr) :
              arr[i] = x /\ \A j \in 1..(i - 1) : arr[j] # x) - 1
    ELSE -1

\* arr[i] of a 0-based array; undefined outside of it
at(arr, i) == IF i + 1 \in DOMAIN arr THEN arr[i + 1] ELSE "undefined"

\* A Tab handler that does not wrap around.
nextViewNoWrap(view) == at(views, indexOf(views, view) + 1)

\* A Tab handler that skips a view.
nextViewSkips(view) == at(views, (indexOf(views, view) + 2) % Len(views))

\* views[(currentIdx + 1) % views.length] of the Tab handler
nextView(view) == at(views, (indexOf(views, view) + 1) % Len(views))

\* An ArrowUp that starts browsing one past the most recent entry.
ArrowUpIndexPastEnd(history, index) ==
    IF index = -1
    THEN Len(history)
    ELSE IF index - 1 > 0 THEN index - 1 ELSE 0

\* An ArrowUp that wraps from the oldest entry to the most recent one.
ArrowUpIndexWraps(history, index) ==
    IF index = -1
    THEN Len(history) - 1
    ELSE IF index - 1 >= 0 THEN index - 1 ELSE Len(history) - 1

\* newIndex of the ArrowUp branch
ArrowUpIndex(history, index) ==
    IF index = -1
    THEN Len(history) - 1
    ELSE IF index - 1 > 0 THEN index - 1 ELSE 0

\* An ArrowDown that leaves the recalled text in the input when it stops
\* browsing.
ArrowDownKeepsInput(history, index) ==
    LET newIndex == index + 1 IN
    IF newIndex >= Len(history)
    THEN [historyIndex |-> -1, input |-> at(history, index)]
    ELSE [historyIndex |-> newIndex, input |-> at(history, newIndex)]

\* An ArrowDown that stays on the newest entry instead of leaving the history.
ArrowDownStaysAtNewest(history, index) ==
    LET newIndex == index + 1 IN
    IF newIndex >= Len(history)
    THEN [historyIndex |-> index, input |-> at(history, index)]
    ELSE [historyIndex |-> newIndex, input |-> at(history, newIndex)]

\* setHistoryIndex and setInput of the ArrowDown branch when browsing
ArrowDownResult(history, index) ==
    LET newIndex == index + 1 IN
    IF newIndex >= Len(history)
    THEN [historyIndex |-> -1, input |-> ""]
    ELSE [historyIndex |-> newIndex, input |-> at(history, newIndex)]

\* A history that holds the newest command first.
appendHistoryFirst(prev, trimmed) == <<trimmed>> \o prev

\* setCommandHistory((prev) => [...prev, trimmed])
appendHistory(prev, trimmed) == Append(prev, trimmed)

\* A setTimeout that clears the pending timers first.
setTimeoutReplaces(pending, callback) == <<callback>>

\* A timer queue that runs the newest callback first.
setTimeoutFirst(pending, callback) == <<callback>> \o pending

\* setTimeout(callback, 100): the callback joins the pending ones, which all
\* have the same delay and so run in the order of their setTimeout calls
setTimeout(pending, callback) == Append(pending, callback)

-----------------------------------------------------------------------------
(* The if-else chain of the setTimeout callback of runCommand: the branch   *)
(* that an already trimmed command takes.                                  *)

BranchLinks(trimmed) ==
    IF trimmed = "help" \/ trimmed = "h" THEN "help"
    ELSE IF trimmed = "links" \/ trimmed = "l" THEN "links"
    ELSE IF trimmed = "soundcloud" \/ trimmed = "sc" THEN "soundcloud"
    ELSE IF trimmed = "bandcamp" \/ trimmed = "bc" THEN "bandcamp"
    ELSE IF trimmed = "instagram" \/ trimmed = "ig" THEN "instagram"
    ELSE IF trimmed = "audius" \/ trimmed = "au" THEN "audius"
    ELSE IF trimmed = "email" \/ trimmed = "e" THEN "email"
    ELSE IF trimmed = "about" \/ trimmed = "a" THEN "about"
    ELSE IF trimmed = "clear" \/ trimmed = "c" THEN "clear"
    ELSE "notfound"

BranchGigs(trimmed) ==
    IF trimmed = "help" \/ trimmed = "h" THEN "help"
    ELSE IF trimmed = "bandcamp" \/ trimmed = "bc" THEN "bandcamp"
    ELSE IF trimmed = "soundcloud" \/ trimmed = "sc" THEN "soundcloud"
    ELSE IF trimmed = "play" \/ trimmed = "p" THEN "play"
    ELSE IF trimmed = "pause" THEN "pause"
    ELSE IF trimmed = "gigs" \/ trimmed = "g" THEN "gigs"
    ELSE IF trimmed = "about" \/ trimmed = "a" THEN "about"
    ELSE IF trimmed = "visuals" \/ trimmed = "v" THEN "visuals"
    ELSE IF trimmed = "clear" \/ trimmed = "c" THEN "clear"
    ELSE "notfound"

\* A chain that knows help by its full name only.
BranchHelpNoAlias(trimmed) ==
    IF trimmed = "h" THEN "notfound"
    ELSE IF variant = "links" THEN BranchLinks(trimmed)
    ELSE BranchGigs(trimmed)

\* A chain without the clear branch.
BranchNoClear(trimmed) ==
    IF trimmed = "clear" \/ trimmed = "c" THEN "notfound"
    ELSE IF variant = "links" THEN BranchLinks(trimmed)
    ELSE BranchGigs(trimmed)

\* A chain that compares without regard to case.
BranchIgnoresCase(trimmed) ==
    IF variant = "links" THEN BranchLinks(ToLowerCase(trimmed))
    ELSE BranchGigs(ToLowerCase(trimmed))

\* The branch of the if-else chain that runs for trimmed
Branch(trimmed) ==
    IF variant = "links" THEN BranchLinks(trimmed) ELSE BranchGigs(trimmed)

\* The lines the callback passes to addOutput; capturedVisuals is the value
\* of visuals in the render whose runCommand set the timer.
ResultLines(trimmed, capturedVisuals) ==
    LET b == Branch(trimmed) IN
    IF variant = "links" THEN
        CASE b = "help"       -> HelpLinks
          [] b = "links"      -> <<"Showing all links...">>
          [] b = "soundcloud" -> <<"Loading SoundCloud player...">>
          [] b = "bandcamp"   -> <<"Opening Bandcamp: " \o SOCIAL_LINKS.bandcamp>>
          [] b = "instagram"  -> <<"Opening Instagram: " \o SOCIAL_LINKS.instagram>>
          [] b = "audius"     -> <<"Opening Audius: " \o SOCIAL_LINKS.audius>>
          [] b = "email"      -> <<"Opening email client...">>
          [] b = "about"      -> AboutLinks
          [] b = "clear"      -> <<>>
          [] OTHER            -> <<NotFoundLine(trimmed)>>
    ELSE
        CASE b = "help"       -> HelpGigs
          [] b = "bandcamp"   -> <<"Loading Bandcamp player...">>
          [] b = "soundcloud" -> <<"Loading SoundCloud player...">>
          [] b = "play"       -> <<"> Now playing: Pulse Sequence - Citizen Science">>
          [] b = "pause"      -> <<"|| Paused">>
          [] b = "gigs"       -> GigsLines
          [] b = "about"      -> AboutGigs
          [] b = "visuals"    ->
                 <<"Visuals: " \o (IF capturedVisuals THEN "off" ELSE "on")>>
          [] b = "clear"      -> <<>>
          [] OTHER            -> <<NotFoundLine(trimmed)>>

\* A callback that goes back to the main view when the command is not found.
ViewAfterNotFoundMain(trimmed) ==
    LET b == Branch(trimmed) IN
    IF b = "notfound" THEN "main"
    ELSE IF variant = "links" THEN
        CASE b = "links"      -> "links"
          [] b = "soundcloud" -> "player"
          [] b = "about"      -> "about"
          [] OTHER            -> currentView
    ELSE
        CASE b \in {"bandcamp", "soundcloud"} -> "player"
          [] OTHER                            -> currentView

\* A callback whose email branch opens the mailto: URI in a new browsing
\* context.
SideEffectEmailOpens(trimmed) ==
    LET b == Branch(trimmed) IN
    IF variant = "links" THEN
        CASE b = "bandcamp"  ->
                 <<[call |-> "window.open", url |-> SOCIAL_LINKS.bandcamp]>>
          [] b = "instagram" ->
                 <<[call |-> "window.open", url |-> SOCIAL_LINKS.instagram]>>
          [] b = "audius"    ->
                 <<[call |-> "window.open", url |-> SOCIAL_LINKS.audius]>>
          [] b = "email"     ->
                 <<[call |-> "window.open", url |-> SOCIAL_LINKS.email]>>
          [] OTHER           -> <<>>
    ELSE <<>>

\* The outbound side effect of the branch of the setTimeout callback taken for
\* a trimmed command (page.tsx:105-116): the links revision opens a profile in
\* a new browsing context or navigates to the mailto: URI; the gigs revision
\* has no such branch.
SideEffect(trimmed) ==
    LET b == Branch(trimmed) IN
    IF variant = "links" THEN
        CASE b = "bandcamp"  ->
                 <<[call |-> "window.open", url |-> SOCIAL_LINKS.bandcamp]>>
          [] b = "instagram" ->
                 <<[call |-> "window.open", url |-> SOCIAL_LINKS.instagram]>>
          [] b = "audius"    ->
                 <<[call |-> "window.open", url |-> SOCIAL_LINKS.audius]>>
          [] b = "email"     ->
                 <<[call |-> "window.location.href",
                    url |-> SOCIAL_LINKS.email]>>
          [] OTHER           -> <<>>
    ELSE <<>>

\* setCurrentView of the callback
ViewAfter(trimmed) ==
    LET b == Branch(trimmed) IN
    IF variant = "links" THEN
        CASE b = "links"      -> "links"
          [] b = "soundcloud" -> "player"
          [] b = "about"      -> "about"
          [] OTHER            -> currentView
    ELSE
        CASE b \in {"bandcamp", "soundcloud"} -> "player"
          [] OTHER                            -> currentView

\* A callback that never selects a player.
PlayerAfterKeeps(trimmed) == activePlayer

\* setShowSoundCloud(true) (links), setActivePlayer (gigs)
PlayerAfter(trimmed) ==
    LET b == Branch(trimmed) IN
    IF variant = "links" THEN
        IF b = "soundcloud" THEN "soundcloud" ELSE activePlayer
    ELSE
        IF b \in {"bandcamp", "soundcloud"} THEN b ELSE activePlayer

\* An addOutput that puts the new lines first.
addOutputFirst(prev, lines) == lines \o prev

\* setOutput((prev) => [...prev, ...newLines])
addOutput(prev, lines) == prev \o lines

\* history: the source of each of the lines of one addOutput
Tags(id, kind, lines) == [i \in 1..Len(lines) |-> <<id, kind>>]

NoRun == [ups |-> 0, downs |-> 0, tabs |-> 0, from |-> "none"]

-----------------------------------------------------------------------------
(* renderView: the links, buttons and embeds of the view panel, each with   *)
(* its href, label or title.                                                *)

Anchor(href) == [tag |-> "a", ref |-> href]

\* the row of links below the player of the links revision
SocialAnchors ==
    {Anchor(SOCIAL_LINKS.bandcamp), Anchor(SOCIAL_LINKS.instagram),
     Anchor(SOCIAL_LINKS.audius), Anchor(SOCIAL_LINKS.email)}

\* A fallback that shows the Retry button only.
FallbackRetryOnly == {[tag |-> "button", ref |-> "Retry"]}

\* the branch of iframeError: "Iframe failed to load", the direct link and
\* the Retry button
Fallback ==
    IF variant = "links"
    THEN {Anchor(SOCIAL_LINKS.soundcloud), [tag |-> "button", ref |-> "Retry"]}
             \cup SocialAnchors
    ELSE {Anchor("https://soundcloud.com/citizen-science-268058692/the-vision"),
          [tag |-> "button", ref |-> "Retry"]}

renderView ==
    IF currentView = "player" THEN
        IF activePlayer = "soundcloud" THEN
            IF ~iframeError
            THEN {[tag |-> "iframe", ref |-> "SoundCloud Player - The Vision"]}
                     \cup (IF variant = "links" THEN SocialAnchors ELSE {})
            ELSE Fallback
        ELSE IF activePlayer = "bandcamp"
        THEN {[tag |-> "iframe", ref |-> "Bandcamp Player"]}
        ELSE {}
    ELSE IF currentView = "links"
    THEN {Anchor(SOCIAL_LINKS.soundcloud)} \cup SocialAnchors
    ELSE {}

\* window.addEventListener("keydown", h); every render makes a new closure, so
\* the registration is never a duplicate of an earlier one.
addEventListener(ls, h) == Append(ls, h)

\* A cleanup that removes nothing.
removeEventListenerNever(ls, h) == ls

\* window.removeEventListener("keydown", h): the registration of h goes.
RECURSIVE removeEventListener(_, _)
removeEventListener(ls, h) ==
    IF ls = <<>> THEN <<>>
    ELSE IF Head(ls) = h THEN Tail(ls)
    ELSE <<Head(ls)>> \o removeEventListener(Tail(ls), h)

\* The effect of the global shortcuts with its dependency [currentView],
\* run after a render: when currentView has changed, the cleanup of the
\* previous run removes its listener and the effect registers the listener
\* of this render.
useEffect(ls, before, after) ==
    IF before = after THEN ls
    ELSE addEventListener(removeEventListener(ls, before), after)

-----------------------------------------------------------------------------
(* The state after mount. *)

InitWatching(w) ==
    /\ watch = w
    /\ variant \in {"links", "gigs"}
    /\ currentView = "main"
    /\ commandHistory = <<>>
    /\ historyIndex = -1
    /\ input = ""
    /\ output = <<>>
    /\ activePlayer = "none"
    /\ iframeError = FALSE
    /\ playing = FALSE
    /\ visuals = TRUE
    /\ timers = <<>>
    /\ focused = TRUE
    /\ mounted = TRUE
    /\ listeners = addEventListener(<<>>, "main")
    /\ outbound = <<>>
    /\ outSrc = <<>>
    /\ lastEvent = "mount"
    /\ run = NoRun
    /\ wiped = {}

Init == InitWatching("none")

InitNav == InitWatching("nav")

InitHelp == InitWatching("off")

InitClear == InitWatching("clear")

\* The links revision alone.
InitLinks == InitWatching("off") /\ variant = "links"

InitKeys == InitWatching("keys")

-----------------------------------------------------------------------------
(* The handlers. *)

\* The handlers that the properties checked with watch = "none" do not name.
Unwatched == {"change", "Tab", "TabDefault", "click", "blur"}

Ghost(ev, r) ==
    /\ lastEvent' = IF watch \in {"off", "clear"} THEN lastEvent
                    ELSE IF watch = "none" /\ ev \in Unwatched THEN "other"
                    ELSE ev
    /\ run' = IF watch = "nav" THEN r ELSE NoRun
    /\ wiped' = IF watch = "clear" /\ ev = "CtrlL"
                THEN wiped \cup {timers[k].id : k \in 1..Len(timers)}
                ELSE wiped
    /\ watch' = watch

\* React commits the state updates of a handler of the mounted component
\* and runs the effects of the new render.
Commit(ev, r) ==
    /\ mounted
    /\ mounted' = mounted
    /\ listeners' = useEffect(listeners, currentView, currentView')
    /\ Ghost(ev, r)

\* onChange of the input: setInput(e.target.value)
Change(text) ==
    /\ focused
    /\ input' = text
    /\ UNCHANGED <<variant, outbound, currentView, commandHistory, historyIndex, output,
                   activePlayer, iframeError, playing, visuals, timers,
                   focused, outSrc>>
    /\ Commit("change", NoRun)

\* runCommand(cmd), up to and including setTimeout; the callback is Timeout.
runCommand(cmd) ==
    LET trimmed == Trim(cmd) IN
    IF trimmed = ""
    THEN /\ UNCHANGED <<commandHistory, historyIndex, output, outSrc, timers>>
         /\ Commit("enterBlank", NoRun)
    ELSE /\ Len(commandHistory) < MaxSubmits
         /\ commandHistory' = appendHistory(commandHistory, trimmed)
         /\ historyIndex' = -1
         /\ output' = addOutput(output, <<EchoLine(trimmed)>>)
         /\ outSrc' = addOutput(outSrc, <<<<Len(commandHistory) + 1, "echo">>>>)
         /\ timers' = setTimeout(timers, [cmd     |-> trimmed,
                                          id      |-> Len(commandHistory) + 1,
                                          visuals |-> visuals])
         /\ Commit("enter", NoRun)

\* An Enter that keeps an input it does not submit.
KeyEnterKeepsBlank ==
    /\ focused
    /\ UNCHANGED <<variant, outbound, currentView, activePlayer, iframeError, playing,
                   visuals, focused>>
    /\ runCommand(input)
    /\ input' = IF Trim(input) = "" THEN input ELSE ""

\* handleKeyDown of the input, e.key === "Enter"
KeyEnter ==
    /\ focused
    /\ UNCHANGED <<variant, outbound, currentView, activePlayer, iframeError, playing,
                   visuals, focused>>
    /\ runCommand(input)
    /\ input' = ""

\* An ArrowUp that moves the cursor and does not load the entry.
KeyArrowUpKeepsInput ==
    /\ focused
    /\ IF Len(commandHistory) > 0
       THEN /\ historyIndex' = ArrowUpIndex(commandHistory, historyIndex)
            /\ input' = input
       ELSE UNCHANGED <<historyIndex, input>>
    /\ UNCHANGED <<variant, outbound, currentView, commandHistory, output, activePlayer,
                   iframeError, playing, visuals, timers, focused, outSrc>>
    /\ Commit("ArrowUp",
              IF run.ups > 0 /\ run.downs = 0
              THEN [NoRun EXCEPT !.ups = IF run.ups > MaxSubmits
                                         THEN run.ups ELSE run.ups + 1]
              ELSE [NoRun EXCEPT !.ups = 1])

\* handleKeyDown of the input, e.key === "ArrowUp"
KeyArrowUp ==
    /\ focused
    /\ IF Len(commandHistory) > 0
       THEN LET newIndex == ArrowUpIndex(commandHistory, historyIndex)
            IN /\ historyIndex' = newIndex
               /\ input' = at(commandHistory, newIndex)
       ELSE UNCHANGED <<historyIndex, input>>
    /\ UNCHANGED <<variant, outbound, currentView, commandHistory, output, activePlayer,
                   iframeError, playing, visuals, timers, focused, outSrc>>
    /\ Commit("ArrowUp",
              IF run.ups > 0 /\ run.downs = 0
              THEN [NoRun EXCEPT !.ups = IF run.ups > MaxSubmits
                                         THEN run.ups ELSE run.ups + 1]
              ELSE [NoRun EXCEPT !.ups = 1])

\* handleKeyDown of the input, e.key === "ArrowDown"
KeyArrowDown ==
    /\ focused
    /\ IF historyIndex >= 0
       THEN LET r == ArrowDownResult(commandHistory, historyIndex) IN
            /\ historyIndex' = r.historyIndex
            /\ input' = r.input
       ELSE UNCHANGED <<historyIndex, input>>
    /\ UNCHANGED <<variant, outbound, currentView, commandHistory, output, activePlayer,
                   iframeError, playing, visuals, timers, focused, outSrc>>
    /\ Commit("ArrowDown",
              IF run.ups > 0
              THEN [run EXCEPT !.downs = IF run.downs > MaxSubmits
                                         THEN run.downs ELSE run.downs + 1]
              ELSE NoRun)

\* The modifier keys of a KeyboardEvent.
Modifiers ==
    [shiftKey : BOOLEAN, ctrlKey : BOOLEAN, altKey : BOOLEAN, metaKey : BOOLEAN]

\* The events with at most the Shift key held.
PlainOrShift ==
    [shiftKey : BOOLEAN, ctrlKey : {FALSE}, altKey : {FALSE}, metaKey : {FALSE}]

Modified(e) == e.shiftKey \/ e.ctrlKey \/ e.altKey \/ e.metaKey

\* A Tab that is honored wherever the focus is.
KeyTabAnyFocus(e) ==
    /\ Len(listeners) > 0
    /\ UNCHANGED <<variant, outbound, commandHistory, historyIndex, input, output,
                   activePlayer, iframeError, playing, visuals, timers, outSrc>>
    /\ IF ~e.shiftKey
       THEN /\ currentView' = nextView(listeners[Len(listeners)])
            /\ focused' = TRUE
            /\ Commit(IF watch = "keys" /\ Modified(e) THEN "TabModifier"
                      ELSE "Tab",
                      IF run.tabs > 0 /\ run.tabs < Len(views)
                      THEN [run EXCEPT !.tabs = run.tabs + 1]
                      ELSE [NoRun EXCEPT !.tabs = 1, !.from = currentView])
       ELSE /\ UNCHANGED currentView
            /\ focused' \in (IF focused THEN {FALSE} ELSE BOOLEAN)
            /\ Commit(IF watch = "keys" /\ Modified(e) THEN "TabModifier"
                      ELSE "TabDefault", NoRun)

\* The window keydown listener, e.key === "Tab".  The listener reads the
\* currentView of the render that registered it.  Without preventDefault
\* the browser moves the focus to another element.
KeyTab(e) ==
    /\ Len(listeners) > 0
    /\ UNCHANGED <<variant, outbound, commandHistory, historyIndex, input, output,
                   activePlayer, iframeError, playing, visuals, timers, outSrc>>
    /\ IF ~e.shiftKey /\ focused
       THEN /\ currentView' = nextView(listeners[Len(listeners)])
            /\ focused' = TRUE
            /\ Commit(IF watch = "keys" /\ Modified(e) THEN "TabModifier"
                      ELSE "Tab",
                      IF run.tabs > 0 /\ run.tabs < Len(views)
                      THEN [run EXCEPT !.tabs = run.tabs + 1]
                      ELSE [NoRun EXCEPT !.tabs = 1, !.from = currentView])
       ELSE /\ UNCHANGED currentView
            /\ focused' \in (IF focused THEN {FALSE} ELSE BOOLEAN)
            /\ Commit(IF watch = "keys" /\ Modified(e) THEN "TabModifier"
                      ELSE "TabDefault", NoRun)

\* An Escape that leaves the history index alone.
KeyEscapeKeepsIndex ==
    /\ Len(listeners) > 0
    /\ input' = ""
    /\ UNCHANGED <<variant, outbound, currentView, commandHistory, historyIndex, output,
                   activePlayer, iframeError, playing, visuals, timers,
                   focused, outSrc>>
    /\ Commit("Escape", NoRun)

\* An Escape that also goes back to the main view.
KeyEscapeToMain ==
    /\ Len(listeners) > 0
    /\ input' = ""
    /\ historyIndex' = -1
    /\ currentView' = "main"
    /\ UNCHANGED <<variant, outbound, commandHistory, output, activePlayer, iframeError,
                   playing, visuals, timers, focused, outSrc>>
    /\ Commit("Escape", NoRun)

\* An Escape that also empties the output log.
KeyEscapeClearsOutput ==
    /\ Len(listeners) > 0
    /\ input' = ""
    /\ historyIndex' = -1
    /\ output' = <<>>
    /\ outSrc' = <<>>
    /\ UNCHANGED <<variant, outbound, currentView, commandHistory, activePlayer,
                   iframeError, playing, visuals, timers, focused>>
    /\ Commit("Escape", NoRun)

\* The window keydown listener, e.key === "Escape"
KeyEscape ==
    /\ Len(listeners) > 0
    /\ input' = ""
    /\ historyIndex' = -1
    /\ UNCHANGED <<variant, outbound, currentView, commandHistory, output, activePlayer,
                   iframeError, playing, visuals, timers, focused, outSrc>>
    /\ Commit("Escape", NoRun)

\* A Ctrl+L that leaves the output log alone.
KeyCtrlLKeeps ==
    /\ Len(listeners) > 0
    /\ UNCHANGED <<variant, outbound, currentView, commandHistory, historyIndex, input,
                   output, activePlayer, iframeError, playing, visuals, timers,
                   focused, outSrc>>
    /\ Commit("CtrlL", NoRun)

\* A Ctrl+L without preventDefault: the browser moves the focus to its
\* address bar.
KeyCtrlLDefault ==
    /\ Len(listeners) > 0
    /\ output' = <<>>
    /\ outSrc' = <<>>
    /\ focused' = FALSE
    /\ UNCHANGED <<variant, outbound, currentView, commandHistory, historyIndex, input,
                   activePlayer, iframeError, playing, visuals, timers>>
    /\ Commit("CtrlL", NoRun)

\* The window keydown listener, e.key === "l" && e.ctrlKey.  With
\* preventDefault the browser's own action for the chord (the focus moves to
\* the address bar) does not happen: the focus stays where it is.
KeyCtrlL ==
    /\ Len(listeners) > 0
    /\ output' = <<>>
    /\ outSrc' = <<>>
    /\ UNCHANGED <<variant, outbound, currentView, commandHistory, historyIndex, input,
                   activePlayer, iframeError, playing, visuals, timers,
                   focused>>
    /\ Commit("CtrlL", NoRun)

\* The callback of the setTimeout of runCommand.  Every timer has the same
\* delay of 100 ms, so the callbacks run in the order of their setTimeout
\* calls: the oldest pending one runs.  A change of currentView runs the
\* effect that focuses the input.
Timeout ==
    /\ Len(timers) > 0
    /\ LET t == Head(timers)
           b == Branch(t.cmd)
           lines == ResultLines(t.cmd, t.visuals)
       IN /\ timers' = Tail(timers)
          /\ output' = IF b = "clear" THEN <<>> ELSE addOutput(output, lines)
          /\ outSrc' = IF b = "clear" THEN <<>>
                       ELSE addOutput(outSrc, Tags(t.id, "result", lines))
          /\ currentView' = ViewAfter(t.cmd)
          /\ activePlayer' = PlayerAfter(t.cmd)
          /\ iframeError' = IF b = "soundcloud"
                               \/ (variant = "gigs" /\ b = "bandcamp")
                            THEN FALSE ELSE iframeError
          /\ playing' = IF variant = "gigs" /\ b = "play" THEN TRUE
                        ELSE IF variant = "gigs" /\ b = "pause" THEN FALSE
                        ELSE playing
          /\ visuals' = IF variant = "gigs" /\ b = "visuals"
                        THEN ~visuals ELSE visuals
          /\ focused' = IF ViewAfter(t.cmd) # currentView THEN TRUE ELSE focused
          /\ outbound' = outbound \o SideEffect(t.cmd)
    /\ UNCHANGED <<variant, commandHistory, historyIndex, input>>
    /\ Commit("timeout", NoRun)

\* onClick of the root element: inputRef.current?.focus()
Click ==
    /\ ~focused
    /\ focused' = TRUE
    /\ UNCHANGED <<variant, outbound, currentView, commandHistory, historyIndex, input,
                   output, activePlayer, iframeError, playing, visuals, timers,
                   outSrc>>
    /\ Commit("click", NoRun)

\* The input loses the focus (the user clicks into the embed or leaves the page).
Blur ==
    /\ focused
    /\ focused' = FALSE
    /\ UNCHANGED <<variant, outbound, currentView, commandHistory, historyIndex, input,
                   output, activePlayer, iframeError, playing, visuals, timers,
                   outSrc>>
    /\ Commit("blur", NoRun)

\* The SoundCloud iframe is rendered in the player view while it is selected
\* and no error is flagged.
IframeShown ==
    [tag |-> "iframe", ref |-> "SoundCloud Player - The Vision"] \in renderView

\* An onError that also leaves the player view.
IframeOnErrorToMain ==
    /\ IframeShown
    /\ iframeError' = TRUE
    /\ currentView' = "main"
    /\ UNCHANGED <<variant, outbound, commandHistory, historyIndex, input,
                   output, activePlayer, playing, visuals, timers, focused,
                   outSrc>>
    /\ Commit("iframeError", NoRun)

\* onError of the iframe: setIframeError(true)
IframeOnError ==
    /\ IframeShown
    /\ iframeError' = TRUE
    /\ UNCHANGED <<variant, outbound, currentView, commandHistory, historyIndex, input,
                   output, activePlayer, playing, visuals, timers, focused,
                   outSrc>>
    /\ Commit("iframeError", NoRun)

\* A Retry that unloads the player.
RetryUnloads ==
    /\ [tag |-> "button", ref |-> "Retry"] \in renderView
    /\ iframeError' = FALSE
    /\ activePlayer' = "none"
    /\ focused' = TRUE
    /\ UNCHANGED <<variant, outbound, currentView, commandHistory, historyIndex, input,
                   output, playing, visuals, timers, outSrc>>
    /\ Commit("retry", NoRun)

\* onClick of the Retry button, then of the root element
Retry ==
    /\ [tag |-> "button", ref |-> "Retry"] \in renderView
    /\ iframeError' = FALSE
    /\ focused' = TRUE
    /\ UNCHANGED <<variant, outbound, currentView, commandHistory, historyIndex, input,
                   output, activePlayer, playing, visuals, timers, outSrc>>
    /\ Commit("retry", NoRun)

\* The Bandcamp iframe of the gigs revision fails to load: the element has
\* neither onError nor onLoad, so no state is set.
BandcampOnError ==
    /\ [tag |-> "iframe", ref |-> "Bandcamp Player"] \in renderView
    /\ UNCHANGED <<variant, outbound, currentView, commandHistory, historyIndex, input,
                   output, activePlayer, iframeError, playing, visuals, timers,
                   focused, outSrc>>
    /\ Commit("embedError", NoRun)

\* The component is unmounted: the cleanup of the last run of the effect
\* removes its listener, and the input element leaves the document.  The
\* pending timers are not cleared.
Unmount ==
    /\ mounted
    /\ mounted' = FALSE
    /\ listeners' = removeEventListener(listeners, currentView)
    /\ focused' = FALSE
    /\ Ghost("unmount", NoRun)
    /\ UNCHANGED <<variant, outbound, currentView, commandHistory, historyIndex, input,
                   output, activePlayer, iframeError, playing, visuals, timers,
                   outSrc>>

\* The callback of a setTimeout of runCommand after the unmount: no cleanup
\* clears the timer, so it runs; window.open and window.location.href act,
\* and React drops the state updates of a component that is not mounted.
TimeoutUnmounted ==
    /\ ~mounted
    /\ Len(timers) > 0
    /\ timers' = Tail(timers)
    /\ outbound' = outbound \o SideEffect(Head(timers).cmd)
    /\ Ghost("timeoutUnmounted", NoRun)
    /\ UNCHANGED <<variant, currentView, commandHistory, historyIndex, input,
                   output, activePlayer, iframeError, playing, visuals,
                   focused, mounted, listeners, outSrc>>

\* Every handler but onChange
Handlers ==
    \/ KeyEnter
    \/ KeyArrowUp
    \/ KeyArrowDown
    \/ \E e \in PlainOrShift : KeyTab(e)
    \/ KeyEscape
    \/ KeyCtrlL
    \/ Timeout
    \/ Click
    \/ Blur
    \/ IframeOnError
    \/ Retry

Next ==
    \/ \E text \in InputTexts : Change(text)
    \/ Handlers

NextNav ==
    \/ \E text \in NavTexts : Change(text)
    \/ Handlers

NextHelp ==
    \/ \E text \in HelpTexts : Change(text)
    \/ Handlers

NextKeys ==
    \/ \E text \in KeyTexts : Change(text)
    \/ Handlers
    \/ \E e \in Modifiers \ PlainOrShift : KeyTab(e)

NextMount ==
    \/ \E text \in MountTexts : Change(text)
    \/ Handlers
    \/ Unmount
    \/ TimeoutUnmounted

NextExact ==
    \/ \E text \in ExactTexts : Change(text)
    \/ Handlers

NextVisuals ==
    \/ \E text \in VisualTexts : Change(text)
    \/ Handlers

NextClear ==
    \/ \E text \in ClearTexts : Change(text)
    \/ Handlers

\* The external-link commands with every handler but the history recall
\* (ArrowUp and ArrowDown write historyIndex and input only, and no callback
\* of runCommand reads either).
NextLinks ==
    \/ \E text \in LinkTexts : Change(text)
    \/ KeyEnter
    \/ \E e \in PlainOrShift : KeyTab(e)
    \/ KeyEscape
    \/ KeyCtrlL
    \/ Timeout
    \/ Click
    \/ Blur
    \/ IframeOnError
    \/ Retry

NextGone ==
    \/ \E text \in GoneTexts : Change(text)
    \/ Handlers
    \/ Unmount
    \/ TimeoutUnmounted

NextPlayer ==
    \/ \E text \in PlayerTexts : Change(text)
    \/ Handlers
    \/ BandcampOnError

Spec == Init /\ [][Next]_vars

SpecHelp == InitHelp /\ [][NextHelp]_vars

SpecKeys == InitKeys /\ [][NextKeys]_vars

SpecMount == Init /\ [][NextMount]_vars

\* The event loop runs every timer callback whose delay has passed.
SpecLive ==
    /\ Init
    /\ [][NextMount]_vars
    /\ WF_vars(Timeout)
    /\ WF_vars(TimeoutUnmounted)

SpecExact == InitHelp /\ [][NextExact]_vars

SpecVisuals == InitHelp /\ [][NextVisuals]_vars

SpecClear == InitClear /\ [][NextClear]_vars

SpecLinks == InitLinks /\ [][NextLinks]_vars

SpecGone == InitLinks /\ [][NextGone]_vars

SpecPlayer == Init /\ [][NextPlayer]_vars

SpecNav == InitNav /\ [][NextNav]_vars

TypeOK ==
    /\ variant \in {"links", "gigs"}
    /\ currentView \in {"main", "links", "player", "gigs", "about"}
    /\ historyIndex \in -1..MaxSubmits
    /\ Len(output) = Len(outSrc)
    /\ Len(commandHistory) <= MaxSubmits
    /\ mounted \in BOOLEAN
    /\ \A i \in 1..Len(listeners) : \E j \in 1..Len(views) : views[j] = listeners[i]

-----------------------------------------------------------------------------
(* Vocabulary of the properties. *)

KeywordsLinks ==
    {"help", "h", "links", "l", "soundcloud", "sc", "bandcamp", "bc",
     "instagram", "ig", "audius", "au", "email", "e", "about", "a",
     "clear", "c"}

KeywordsGigs ==
    {"help", "h", "bandcamp", "bc", "soundcloud", "sc", "play", "p", "pause",
     "gigs", "g", "about", "a", "visuals", "v", "clear", "c"}

Keywords == IF variant = "links" THEN KeywordsLinks ELSE KeywordsGigs

ClearKeywords == {"clear", "c"}

\* s is empty or consists of blanks only
IsBlank(s) == \A i \in 1..Len(s) : SubSeq(s, i, i) = " "

\* the positions of the output log that hold the line(s) tagged tag
Positions(tag) == {i \in 1..Len(outSrc) : outSrc[i] = tag}

\* the deferred action of submission id has not run yet
Pending(id) == \E k \in 1..Len(timers) : timers[k].id = id

\* this step is the oldest deferred action running
DeferredRuns == Len(timers) > 0 /\ timers' = Tail(timers)

\* this step submits a non-empty command
Submits == Len(commandHistory') = Len(commandHistory) + 1

-----------------------------------------------------------------------------
(* C1: submitting a non-empty trimmed input that is no keyword appends      *)
(* exactly one "Command not found" line, which names the input and refers   *)
(* to help, and does not change the active view: the submission appends     *)
(* only the echo line, the deferred action appends only that line, both     *)
(* keep the view, and the log never holds two such lines of one submission. *)
C1_CommandNotFound ==
    /\ [](\A id \in 1..Len(commandHistory) :
              commandHistory[id] \notin Keywords =>
                  Cardinality(Positions(<<id, "result">>)) <= 1)
    /\ [][/\ (Submits /\ commandHistory'[Len(commandHistory')] \notin Keywords)
              => /\ currentView' = currentView
                 /\ Len(output') = Len(output) + 1
          /\ (DeferredRuns /\ Head(timers).cmd \notin Keywords)
              => /\ currentView' = currentView
                 /\ output' = Append(output,
                        "Command not found: " \o Head(timers).cmd
                            \o ". Type 'help' for available commands.")]_vars

C1_Witness ==
    /\ currentView = "player"
    /\ \E i \in 1..Len(output) :
           /\ outSrc[i][2] = "result"
           /\ commandHistory[outSrc[i][1]] = "foo"
           /\ output[i] = "Command not found: foo. Type 'help' for available commands."

(* C2: submitting an empty or whitespace-only input changes neither the     *)
(* command history, the output log nor the active view and schedules no     *)
(* deferred action.                                                         *)
C2_BlankIsNoOp ==
    [][(lastEvent' \in {"enter", "enterBlank"} /\ IsBlank(input))
           => UNCHANGED <<commandHistory, output, currentView, timers>>]_vars

C2_Witness ==
    /\ lastEvent = "enterBlank"
    /\ Len(commandHistory) >= 1
    /\ Len(timers) >= 1
    /\ Len(output) >= 1

(* C3: the echo lines in the output log stand in the order in which their   *)
(* commands were submitted, and each is "$ " followed by its command.       *)
C3_EchoOrder ==
    /\ \A i, j \in 1..Len(output) :
           (i < j /\ outSrc[i][2] = "echo" /\ outSrc[j][2] = "echo")
               => outSrc[i][1] < outSrc[j][1]
    /\ \A i \in 1..Len(output) :
           outSrc[i][2] = "echo"
               => output[i] = "$ " \o commandHistory[outSrc[i][1]]

C3_Witness ==
    /\ Positions(<<1, "echo">>) # {}
    /\ Positions(<<2, "echo">>) # {}
    /\ Positions(<<1, "result">>) # {}

(* C4: commands are accepted while deferred actions are pending, and the    *)
(* deferred actions run in submission order: the pending ones are always    *)
(* the most recent submissions, oldest first, and the result lines in the   *)
(* output log stand in submission order.                                    *)
C4_ResultOrder ==
    /\ \A k \in 1..Len(timers) :
           timers[k].id = Len(commandHistory) - Len(timers) + k
    /\ \A i, j \in 1..Len(output) :
           (i < j /\ outSrc[i][2] = "result" /\ outSrc[j][2] = "result")
               => outSrc[i][1] <= outSrc[j][1]

\* the second command was submitted while the first was pending, and the
\* results came in submission order
C4_Witness ==
    \E p, q, r \in 1..Len(output) :
        /\ p < q /\ q < r
        /\ outSrc[p] = <<2, "echo">>
        /\ outSrc[q] = <<1, "result">>
        /\ outSrc[r] = <<2, "result">>

(* C5: no output line of a later command (echo or result) is appended       *)
(* before all output lines of an earlier command have been appended: the    *)
(* log holds no line of a command while an earlier command's deferred       *)
(* action is pending, and its lines are grouped by submission.              *)
C5_NoInterleaving ==
    /\ \A i \in 1..Len(output) : \A k \in 1..Len(timers) :
           timers[k].id >= outSrc[i][1]
    /\ \A i, j \in 1..Len(output) :
           i < j => outSrc[i][1] <= outSrc[j][1]

(* C6: the step in which the clear command's deferred action runs, and the  *)
(* step in which Ctrl+L is handled, both end with an empty output log.      *)
C6_ClearEmpties ==
    [][((DeferredRuns /\ Head(timers).cmd \in ClearKeywords)
            \/ lastEvent' = "CtrlL")
           => Len(output') = 0]_vars

C6_Witness ==
    /\ lastEvent = "timeout"
    /\ commandHistory = <<"foo", "c">>
    /\ timers = <<>>
    /\ output = <<>>

(* C7: once the deferred action of a clear command has run, the output log  *)
(* does not hold the echo line of that clear command.                       *)
C7_ClearLeavesNoEcho ==
    \A id \in 1..Len(commandHistory) :
        (commandHistory[id] \in ClearKeywords /\ ~Pending(id))
            => Positions(<<id, "echo">>) = {}

C7_Witness ==
    /\ Len(commandHistory) = 2
    /\ commandHistory[1] = "c"
    /\ timers = <<>>
    /\ Len(output) = 2

-----------------------------------------------------------------------------
(* Navigation.  run counts the ArrowUp presses (ups) and the ArrowDown      *)
(* presses after them (downs) that followed each other with no other event  *)
(* in between, and the honoured Tab presses (tabs) with the view they       *)
(* started from.                                                            *)

\* the number of views of the Tab handler
ViewCount == 4

CycleLinks ==
    [main |-> "links", links |-> "player", player |-> "about", about |-> "main"]

CycleGigs ==
    [main |-> "player", player |-> "gigs", gigs |-> "about", about |-> "main"]

RECURSIVE Advance(_, _)
Advance(view, k) ==
    IF k = 0 THEN view
    ELSE Advance(IF variant = "links" THEN CycleLinks[view]
                 ELSE CycleGigs[view], k - 1)

(* C8, as amended: with a command history of length N >= 1, ArrowUp N times *)
(* and then ArrowDown N times leaves the input buffer empty and the history *)
(* index at -1, whatever the input buffer and the index were before.        *)
C8_RoundTrip ==
    LET N == Len(commandHistory) IN
    (N >= 1 /\ run.ups = N /\ run.downs = N)
        => (input = "" /\ historyIndex = -1)

C8_Witness ==
    /\ Len(commandHistory) = 2
    /\ run.ups = 2
    /\ run.downs = 2
    /\ lastEvent = "ArrowDown"

(* C8, as stated: the same for every N, the empty history (N = 0, no key    *)
(* pressed) included.                                                       *)
C8_RoundTripAnyN ==
    LET N == Len(commandHistory) IN
    (run.ups = N /\ run.downs = N)
        => (input = "" /\ historyIndex = -1)

(* C9: k honoured Tab presses in a row move the active view k places along  *)
(* the ordered list of views, wrapping from the last to the first, so that  *)
(* as many presses as there are views return to the view they started from. *)
C9_TabCycle ==
    /\ run.tabs >= 1 => currentView = Advance(run.from, run.tabs)
    /\ run.tabs = ViewCount => currentView = run.from

C9_Witness ==
    /\ run.tabs = ViewCount
    /\ run.from = "player"
    /\ currentView = "player"

(* C10: the history index is -1 or a position 0..len-1 of the command       *)
(* history.                                                                 *)
C10_IndexInRange ==
    historyIndex = -1 \/ historyIndex \in 0..(Len(commandHistory) - 1)

\* browsing, clamped at the oldest entry
C10_Witness ==
    /\ Len(commandHistory) = 2
    /\ historyIndex = 0
    /\ run.ups = 3

-----------------------------------------------------------------------------
(* Invariants of the data model. *)

ViewsLinks == {"main", "links", "player", "about"}

ViewsGigs == {"main", "player", "gigs", "about"}

\* s is a prefix of t
IsPrefix(s, t) == Len(s) <= Len(t) /\ SubSeq(t, 1, Len(s)) = s

(* C11: the active view is always one of the views of the revision, which   *)
(* are the entries of the cycling list, and neither the submission of an    *)
(* unrecognized input nor its deferred action changes it.                   *)
C11_ViewEnumerated ==
    /\ [](currentView \in (IF variant = "links" THEN ViewsLinks ELSE ViewsGigs))
    /\ [][((Submits /\ commandHistory'[Len(commandHistory')] \notin Keywords)
              \/ (DeferredRuns /\ Head(timers).cmd \notin Keywords))
             => currentView' = currentView]_vars

\* the last view of the list was reached by Tab and an unrecognized command
\* ran there
C11_Witness ==
    /\ currentView = "about"
    /\ variant = "gigs"
    /\ lastEvent = "timeout"
    /\ timers = <<>>
    /\ commandHistory = <<"foo">>

(* C12: in every step the output log stays the same, is extended at its end *)
(* (its previous value is a prefix of the new one) or becomes empty.        *)
C12_OutputAppendOrClear ==
    [][output' = output \/ IsPrefix(output, output') \/ output' = <<>>]_vars

C12_Witness ==
    /\ lastEvent = "timeout"
    /\ Len(output) = 4
    /\ Positions(<<2, "result">>) # {}

(* C13: in every step the previous command history is a prefix of the new   *)
(* one; clear, Ctrl+L, Escape and the arrow keys leave it as it is.         *)
C13_HistoryAppendOnly ==
    [][/\ IsPrefix(commandHistory, commandHistory')
       /\ ((DeferredRuns /\ Head(timers).cmd \in ClearKeywords)
              \/ lastEvent' \in {"CtrlL", "Escape", "ArrowUp", "ArrowDown"})
             => commandHistory' = commandHistory]_vars

\* a clear command has run and Ctrl+L was pressed with two commands in the
\* history
C13_Witness ==
    /\ lastEvent = "CtrlL"
    /\ commandHistory = <<"foo", "c">>
    /\ timers = <<>>

-----------------------------------------------------------------------------
(* The embedded player. *)

SoundCloudKeywords == {"soundcloud", "sc"}

\* unloaded: no player selected; failed: the error flag is set; else loaded
PlayerStateOf(player, error) ==
    IF player = "none" THEN "unloaded"
    ELSE IF error THEN "failed" ELSE "loaded"

PlayerState == PlayerStateOf(activePlayer, iframeError)

(* C14: when the deferred action of "sc" or "soundcloud" has run, from any  *)
(* state, the active view is the player view, the SoundCloud player is      *)
(* selected and the error flag is false.                                    *)
C14_LoadSoundCloud ==
    [][(DeferredRuns /\ Head(timers).cmd \in SoundCloudKeywords)
           => /\ currentView' = "player"
              /\ activePlayer' = "soundcloud"
              /\ iframeError' = FALSE]_vars

\* the second of two sc commands has run
C14_Witness ==
    /\ lastEvent = "timeout"
    /\ commandHistory = <<"sc", "sc">>
    /\ timers = <<>>
    /\ currentView = "player"
    /\ PlayerState = "loaded"

(* C15: the player state moves between unloaded, loaded and failed only:    *)
(* the error signal of an embed takes loaded to failed, Retry takes failed  *)
(* to loaded with the same selection, and no other change of the state      *)
(* happens than unloaded to loaded and failed to loaded.                    *)
C15_PlayerStateMachine ==
    [][/\ (lastEvent' \in {"iframeError", "embedError"} /\ PlayerState = "loaded")
             => PlayerStateOf(activePlayer', iframeError') = "failed"
       /\ (lastEvent' = "retry" /\ PlayerState = "failed")
             => /\ PlayerStateOf(activePlayer', iframeError') = "loaded"
                /\ activePlayer' = activePlayer
       /\ <<PlayerState, PlayerStateOf(activePlayer', iframeError')>>
             \in {<<"unloaded", "unloaded">>, <<"loaded", "loaded">>,
                  <<"failed", "failed">>, <<"unloaded", "loaded">>,
                  <<"loaded", "failed">>, <<"failed", "loaded">>}]_vars

(* C16: while the player has failed and the player view is shown, the view  *)
(* holds a link to the track or profile on soundcloud.com and the Retry     *)
(* button.                                                                  *)
C16_FallbackShown ==
    (PlayerState = "failed" /\ currentView = "player")
        => /\ \E e \in renderView :
                  /\ e.tag = "a"
                  /\ Len(e.ref) >= 23
                  /\ SubSeq(e.ref, 1, 23) = "https://soundcloud.com/"
           /\ \E e \in renderView : e.tag = "button" /\ e.ref = "Retry"

C16_Witness ==
    /\ PlayerState = "failed"
    /\ currentView = "player"
    /\ lastEvent = "iframeError"

-----------------------------------------------------------------------------
(* The commands. *)

HelpKeywords == {"help", "h"}

(* C17: submitting "help" or "h" appends its echo line; its deferred action *)
(* appends the help block of the revision at the end of the output log, so  *)
(* after the echo line; neither step changes the active view or the player  *)
(* state.                                                                   *)
C17_Help ==
    /\ [](\A id \in 1..Len(commandHistory) :
              commandHistory[id] \in HelpKeywords =>
                  \A p \in Positions(<<id, "echo">>) :
                      \A q \in Positions(<<id, "result">>) : p < q)
    /\ [][/\ (Submits /\ commandHistory'[Len(commandHistory')] \in HelpKeywords)
              => /\ output' = Append(output,
                        "$ " \o commandHistory'[Len(commandHistory')])
                 /\ UNCHANGED <<currentView, activePlayer, iframeError>>
          /\ (DeferredRuns /\ Head(timers).cmd \in HelpKeywords)
              => /\ output' = output \o (IF variant = "links" THEN HelpLinks
                                          ELSE HelpGigs)
                 /\ UNCHANGED <<currentView, activePlayer, iframeError>>]_vars

\* help has run in the player view with a player loaded, after Ctrl+L
C17_Witness ==
    /\ variant = "links"
    /\ Len(output) = 17
    /\ output[1] = "$ help"
    /\ output[2] = "Available commands:"
    /\ output[17] = "  Ctrl+L           - Clear output"
    /\ currentView = "player"
    /\ PlayerState = "loaded"

(* C18, as amended: an unrecognized command is handled without any error    *)
(* state.  Its submission, like that of every command, appends it to the    *)
(* command history and sets the history index to -1, and changes neither    *)
(* the active view nor the player state; its deferred action changes        *)
(* nothing but the output log.                                              *)
C18_RecoveredLocally ==
    [][/\ (Submits /\ commandHistory'[Len(commandHistory')] \notin Keywords)
           => /\ commandHistory' =
                     Append(commandHistory, commandHistory'[Len(commandHistory')])
              /\ historyIndex' = -1
              /\ UNCHANGED <<currentView, activePlayer, iframeError, playing,
                             visuals>>
       /\ (DeferredRuns /\ Head(timers).cmd \notin Keywords)
           => UNCHANGED <<commandHistory, historyIndex, input, currentView,
                          activePlayer, iframeError, playing, visuals,
                          focused>>]_vars

\* the deferred action of foo has run while the user browsed the history
C18_Witness ==
    /\ lastEvent = "timeout"
    /\ commandHistory = <<"sc", "foo">>
    /\ timers = <<>>
    /\ historyIndex = 1
    /\ input = "foo"

(* C18, as stated: neither the submission of an unrecognized command nor    *)
(* its deferred action changes the command history, the history index, the  *)
(* active view or the player state.                                         *)
C18_OnlyOutputChanges ==
    [][((Submits /\ commandHistory'[Len(commandHistory')] \notin Keywords)
           \/ (DeferredRuns /\ Head(timers).cmd \notin Keywords))
          => UNCHANGED <<commandHistory, historyIndex, currentView,
                         activePlayer, iframeError>>]_vars

-----------------------------------------------------------------------------
(* Recall of earlier commands with the arrow keys. *)

(* C19: ArrowUp with an empty history changes nothing; when not browsing    *)
(* and the history is not empty, the index becomes that of the most recent  *)
(* entry; when browsing, the index goes down by one but not below 0; and    *)
(* whenever the history is not empty the input becomes the entry at the     *)
(* new index.                                                               *)
C19_RecallPrevious ==
    [][lastEvent' = "ArrowUp" =>
          /\ commandHistory' = commandHistory
          /\ Len(commandHistory) = 0 =>
                 UNCHANGED <<historyIndex, input, output, currentView>>
          /\ (Len(commandHistory) > 0 /\ historyIndex = -1) =>
                 historyIndex' = Len(commandHistory) - 1
          /\ (Len(commandHistory) > 0 /\ historyIndex > 0) =>
                 historyIndex' = historyIndex - 1
          /\ (Len(commandHistory) > 0 /\ historyIndex = 0) =>
                 historyIndex' = 0
          /\ Len(commandHistory) > 0 =>
                 /\ historyIndex' \in 0..(Len(commandHistory) - 1)
                 /\ input' = commandHistory[historyIndex' + 1]]_vars

\* ArrowUp has moved from the most recent entry to the older one, replacing
\* what was typed
C19_Witness ==
    /\ lastEvent = "ArrowUp"
    /\ run.ups = 2
    /\ commandHistory = <<"sc", "foo">>
    /\ historyIndex = 0
    /\ input = "sc"

(* C20: ArrowDown when not browsing changes neither the index nor the       *)
(* input; when browsing and a newer entry exists, the index goes up by one  *)
(* and the input becomes that entry; when browsing at the newest entry, the *)
(* index becomes -1 and the input becomes empty.                            *)
C20_RecallNext ==
    [][lastEvent' = "ArrowDown" =>
          /\ commandHistory' = commandHistory
          /\ historyIndex = -1 => UNCHANGED <<historyIndex, input>>
          /\ (historyIndex >= 0 /\ historyIndex + 1 < Len(commandHistory)) =>
                 /\ historyIndex' = historyIndex + 1
                 /\ input' = commandHistory[historyIndex' + 1]
          /\ (historyIndex >= 0 /\ historyIndex + 1 >= Len(commandHistory)) =>
                 /\ historyIndex' = -1
                 /\ input' = ""]_vars

\* ArrowDown has left the history from its newest entry
C20_Witness ==
    /\ lastEvent = "ArrowDown"
    /\ run.ups = 1
    /\ run.downs = 1
    /\ Len(commandHistory) = 2
    /\ historyIndex = -1
    /\ input = ""

-----------------------------------------------------------------------------
(* The global shortcuts. *)

(* C21: after the submission of a command (Enter with an input that is not  *)
(* blank) and after Escape, whatever the state before, the history index    *)
(* is -1.                                                                   *)
C21_CursorReset ==
    [][(Submits \/ lastEvent' = "Escape") => historyIndex' = -1]_vars

\* Escape pressed with two commands in the history
C21_Witness ==
    /\ lastEvent = "Escape"
    /\ historyIndex = -1
    /\ commandHistory = <<"sc", "c">>
    /\ focused

(* C22: a Tab keydown while the input does not have the focus leaves the    *)
(* active view as it is.                                                    *)
C22_TabNeedsFocus ==
    [][(lastEvent' \in {"Tab", "TabDefault", "TabModifier"} /\ ~focused)
          => currentView' = currentView]_vars

\* Tab without a modifier was not honored, in the player view
C22_Witness ==
    /\ lastEvent = "TabDefault"
    /\ ~focused
    /\ currentView = "player"

(* C23: a Tab keydown with Shift, Ctrl, Alt or Meta held leaves the active  *)
(* view as it is.                                                           *)
C23_TabNoModifier ==
    [][lastEvent' = "TabModifier" => currentView' = currentView]_vars

(* C24: Escape, with or without the focus in the input, empties the input   *)
(* and sets the history index to -1, and leaves the output log, the command *)
(* history, the active view, the player state and everything else as they   *)
(* are.                                                                     *)
C24_Escape ==
    [][lastEvent' = "Escape" =>
          /\ input' = ""
          /\ historyIndex' = -1
          /\ UNCHANGED <<output, commandHistory, currentView, activePlayer,
                         iframeError, playing, visuals, timers, focused>>]_vars

\* Escape pressed without the focus, with output on the screen and a player
\* loaded
C24_Witness ==
    /\ lastEvent = "Escape"
    /\ ~focused
    /\ input = ""
    /\ Len(output) = 2
    /\ currentView = "player"
    /\ activePlayer = "soundcloud"

(* C25: Ctrl+L, with or without the focus in the input, empties the output  *)
(* log, prevents the browser's default action for the chord (the focus does *)
(* not move), and leaves the input, the command history, the history index, *)
(* the active view and the player state as they are.                        *)
C25_CtrlL ==
    [][lastEvent' = "CtrlL" =>
          /\ output' = <<>>
          /\ focused' = focused
          /\ UNCHANGED <<input, commandHistory, historyIndex, currentView,
                         activePlayer, iframeError, playing, visuals,
                         timers>>]_vars

\* Ctrl+L pressed without the focus, while browsing the history with a
\* recalled command in the input
C25_Witness ==
    /\ lastEvent = "CtrlL"
    /\ ~focused
    /\ output = <<>>
    /\ input = "sc"
    /\ historyIndex = 0
    /\ currentView = "player"

-----------------------------------------------------------------------------
(* The lifetime of the keydown listener. *)

(* C26: while the component is mounted exactly one keydown listener of it   *)
(* is registered on window, also after the effect has registered a new one  *)
(* because the view changed; after the unmount none is registered.          *)
C26_OneListener ==
    /\ mounted => Len(listeners) = 1
    /\ ~mounted => listeners = <<>>

\* unmounted after the view had changed by a command and by Tab
C26_Witness ==
    /\ ~mounted
    /\ listeners = <<>>
    /\ currentView = "about"
    /\ activePlayer = "soundcloud"

-----------------------------------------------------------------------------
(* The deferred actions. *)

(* C27: the deferred action of every submitted command eventually runs; it  *)
(* is scheduled only by its own submission, hence once, and it leaves the   *)
(* pending timers only by running, whatever is submitted, pressed or        *)
(* shown in between.                                                        *)
C27_AlwaysCompletes ==
    /\ \A id \in 1..MaxSubmits : Pending(id) ~> ~Pending(id)
    /\ [][\A id \in 1..MaxSubmits :
             /\ (Pending(id) /\ ~Pending(id)') =>
                    /\ lastEvent' \in {"timeout", "timeoutUnmounted"}
                    /\ Head(timers).id = id
                    /\ timers' = Tail(timers)
             /\ (~Pending(id) /\ Pending(id)') =>
                    /\ Submits
                    /\ id = Len(commandHistory')
                    /\ timers' = Append(timers, timers'[Len(timers')])]_vars

\* both deferred actions have run, the first one after the second submission
\* and after a change of view by Tab
C27_Witness ==
    /\ lastEvent = "timeout"
    /\ timers = <<>>
    /\ Len(commandHistory) = 2
    /\ Len(output) = 4
    /\ outSrc[2] = <<2, "echo">>
    /\ outSrc[3] = <<1, "result">>
    /\ outSrc[4] = <<2, "result">>

-----------------------------------------------------------------------------
(* The submission. *)

\* t is s without the blanks at its two ends
IsTrimmed(t, s) ==
    \E i \in 1..Len(s) : \E j \in i..Len(s) :
        /\ t = SubSeq(s, i, j)
        /\ SubSeq(s, i, i) # " "
        /\ SubSeq(s, j, j) # " "
        /\ \A k \in 1..Len(s) : (k < i \/ k > j) => SubSeq(s, k, k) = " "

(* C28: Enter with an input that is not blank appends the input without the *)
(* blanks at its ends, and nothing else, to the command history, and        *)
(* appends the line "$ " followed by that string to the output log, in the  *)
(* same step, while the deferred action of the submission is still pending. *)
C28_SubmitAppends ==
    [][(lastEvent' \in {"enter", "enterBlank"} /\ ~IsBlank(input)) =>
          \E t \in {SubSeq(input, i, j) : i, j \in 1..Len(input)} :
              /\ IsTrimmed(t, input)
              /\ commandHistory' = Append(commandHistory, t)
              /\ output' = Append(output, "$ " \o t)
              /\ \E k \in 1..Len(timers') :
                     timers'[k].id = Len(commandHistory')]_vars

\* " sc " was submitted and its deferred action has not run yet
C28_Witness ==
    /\ lastEvent = "enter"
    /\ commandHistory = <<"sc">>
    /\ output = <<"$ sc">>
    /\ Len(timers) = 1
    /\ timers[1].id = 1

-----------------------------------------------------------------------------
(* The match of the keywords. *)

\* cmd is no keyword, but a proper prefix, an extension or another spelling
\* in upper and lower case of one
NearKeyword(cmd) ==
    /\ cmd \notin Keywords
    /\ \E k \in Keywords :
           \/ IsPrefix(cmd, k)
           \/ IsPrefix(k, cmd)
           \/ ToLowerCase(cmd) = k

(* C29: an input that is no keyword but a proper prefix, an extension or a  *)
(* spelling in other case of a keyword is unrecognized: its deferred action *)
(* appends the "Command not found" line that names it and changes neither   *)
(* the view nor the player state nor any other state of a keyword's branch. *)
C29_ExactMatch ==
    [][(DeferredRuns /\ NearKeyword(Head(timers).cmd)) =>
          /\ output' = Append(output,
                 "Command not found: " \o Head(timers).cmd
                     \o ". Type 'help' for available commands.")
          /\ UNCHANGED <<currentView, activePlayer, iframeError, playing,
                         visuals, commandHistory, historyIndex, input>>]_vars

\* SC and he were submitted and both were answered with "Command not found"
C29_Witness ==
    /\ commandHistory = <<"SC", "he">>
    /\ timers = <<>>
    /\ output = <<"$ SC",
                  "Command not found: SC. Type 'help' for available commands.",
                  "$ he",
                  "Command not found: he. Type 'help' for available commands.">>
    /\ currentView = "main"
    /\ activePlayer = "none"

-----------------------------------------------------------------------------
(* The changes of the active view. *)

\* the commands whose branch calls setCurrentView
ViewCommands ==
    IF variant = "links"
    THEN {"links", "l", "soundcloud", "sc", "about", "a"}
    ELSE {"bandcamp", "bc", "soundcloud", "sc"}

(* C30: a step that changes the active view is a Tab keydown or the         *)
(* deferred action of a command that shows a view or loads a player; the    *)
(* arrow keys, Escape, Ctrl+L, the clear command, typing, the error signal  *)
(* of the embed and Retry leave the active view as it is.                   *)
C30_ViewChanges ==
    [][/\ currentView' # currentView =>
              \/ lastEvent' \in {"Tab", "TabModifier"}
              \/ DeferredRuns /\ Head(timers).cmd \in ViewCommands
       /\ lastEvent' \in {"ArrowUp", "ArrowDown", "Escape", "CtrlL", "change",
                          "iframeError", "retry"}
              => currentView' = currentView
       /\ (DeferredRuns /\ Head(timers).cmd \in ClearKeywords)
              => currentView' = currentView]_vars

\* the view was changed by sc, and the clear command and Retry after an
\* embed error left it alone
C30_Witness ==
    /\ lastEvent = "retry"
    /\ currentView = "player"
    /\ commandHistory = <<"sc", "c">>
    /\ timers = <<>>
    /\ output = <<>>

-----------------------------------------------------------------------------
(* C31: a load failure of the embedded player is recovered locally: the     *)
(* step that handles the error signal of the embed sets the failure flag    *)
(* and changes nothing else (view, output log, command history, history     *)
(* cursor, input buffer, player selection, pending deferred actions, focus  *)
(* and mounting are as before), and after it a focused input still accepts  *)
(* Enter.                                                                   *)
C31_FailureRecoveredLocally ==
    /\ [][lastEvent' = "iframeError"
              => /\ iframeError'
                 /\ UNCHANGED <<currentView, output, commandHistory,
                                historyIndex, input, activePlayer, timers,
                                focused, mounted>>]_vars
    /\ []((lastEvent = "iframeError" /\ focused
               /\ Len(commandHistory) < MaxSubmits) => ENABLED KeyEnter)

\* the embed failed while a command was pending and text was typed
C31_Witness ==
    /\ lastEvent = "iframeError"
    /\ iframeError
    /\ currentView = "player"
    /\ Len(timers) > 0
    /\ input # ""
    /\ focused

(* C34: the player never returns to the unloaded state once a player has   *)
(* been selected, and whenever the failure flag is set the selected player  *)
(* is SoundCloud.                                                           *)
C34_PlayerNeverUnloads ==
    /\ [](iframeError => activePlayer = "soundcloud")
    /\ [][activePlayer # "none" => activePlayer' # "none"]_vars

\* gigs revision: Bandcamp was selected, then SoundCloud, whose embed failed
C34_Witness ==
    /\ variant = "gigs"
    /\ commandHistory = <<"bc", "sc">>
    /\ lastEvent = "iframeError"
    /\ iframeError
    /\ activePlayer = "soundcloud"

(* C36: the step that handles Enter always ends with an empty input         *)
(* buffer; when the input was empty or held only white space, that step     *)
(* changes nothing else.                                                    *)
C36_EnterEmptiesInput ==
    [][lastEvent' \in {"enter", "enterBlank"}
           => /\ input' = ""
              /\ IsBlank(input)
                    => UNCHANGED <<commandHistory, historyIndex, output,
                                   currentView, activePlayer, iframeError,
                                   playing, visuals, timers, focused,
                                   outbound>>]_vars

\* Enter on white space typed over a recalled command, a command pending
C36_Witness ==
    /\ lastEvent = "enterBlank"
    /\ input = ""
    /\ historyIndex >= 0
    /\ Len(timers) > 0

(* C35: whenever the history cursor is not the sentinel -1, the input       *)
(* buffer equals the command history entry at the cursor.                   *)
C35_InputIsEntry ==
    historyIndex # -1 => input = commandHistory[historyIndex + 1]

(* C35, amended: the step of an ArrowUp or ArrowDown that ends with the     *)
(* cursor on an entry ends with the input buffer equal to that entry;       *)
(* typing, and Enter on an empty or whitespace-only input, leave the cursor *)
(* where it is, so that while browsing the input buffer may differ from     *)
(* the entry at the cursor.                                                 *)
C35_RecallLoadsEntry ==
    /\ [][(lastEvent' \in {"ArrowUp", "ArrowDown"} /\ historyIndex' # -1)
              => input' = commandHistory[historyIndex' + 1]]_vars
    /\ [][lastEvent' \in {"other", "enterBlank"}
              => historyIndex' = historyIndex]_vars

\* Enter on white space typed over a recalled entry: the cursor stays on the
\* entry and the input buffer is empty
C35_Witness ==
    /\ lastEvent = "enterBlank"
    /\ historyIndex = 0
    /\ commandHistory[1] = "foo"
    /\ input = ""

(* C33: in the gigs revision every run of the deferred action of visuals    *)
(* or v toggles the visuals flag and appends exactly one line, which is     *)
(* "Visuals: on" when the flag is true after the toggle and "Visuals: off"  *)
(* when it is false, also when a second such command was submitted before   *)
(* the deferred action of the first had run.                                *)
C33_VisualsMessage ==
    [][(variant = "gigs" /\ DeferredRuns
            /\ Head(timers).cmd \in {"visuals", "v"})
           => /\ visuals' = ~visuals
              /\ output' = Append(output, IF visuals' THEN "Visuals: on"
                                          ELSE "Visuals: off")]_vars

\* a clear was issued after submission id: a clear command submitted after
\* it, or Ctrl+L pressed while it was pending
ClearedSince(id) ==
    \/ id \in wiped
    \/ \E j \in (id + 1)..Len(commandHistory) :
           commandHistory[j] \in ClearKeywords

(* C32: when the deferred action of a command other than clear appends its  *)
(* result lines, the echo line of that command is in the output log and     *)
(* stands before them, unless a clear (the command, or Ctrl+L) was issued   *)
(* after the command was submitted; and the deferred action of a clear      *)
(* command does not remove the echo line of a command other than clear      *)
(* that was submitted after it.                                             *)
C32_EchoBeforeResult ==
    /\ [][(DeferredRuns /\ Head(timers).cmd \notin ClearKeywords
                /\ ~ClearedSince(Head(timers).id))
              => \E p \in 1..Len(outSrc') :
                     /\ outSrc'[p] = <<Head(timers).id, "echo">>
                     /\ \A q \in 1..Len(outSrc') :
                            outSrc'[q] = <<Head(timers).id, "result">>
                                => p < q]_vars
    /\ [][(DeferredRuns /\ Head(timers).cmd \in ClearKeywords)
              => \A k \in 2..Len(timers) :
                     (/\ timers[k].cmd \notin ClearKeywords
                      /\ Positions(<<timers[k].id, "echo">>) # {})
                         => \E p \in 1..Len(outSrc') :
                                outSrc'[p] = <<timers[k].id, "echo">>]_vars

\* the external-link commands of the links revision
LinkKeywords ==
    {"bandcamp", "bc", "instagram", "ig", "audius", "au", "email", "e"}

\* the outbound side effect of an external-link command
LinkEffect(cmd) ==
    CASE cmd \in {"bandcamp", "bc"} ->
             [call |-> "window.open",
              url  |-> "https://citizensciencemusic.bandcamp.com/"]
      [] cmd \in {"instagram", "ig"} ->
             [call |-> "window.open",
              url  |-> "https://www.instagram.com/citizensciencemusic/"]
      [] cmd \in {"audius", "au"} ->
             [call |-> "window.open",
              url  |-> "https://audius.co/citizensciencemusic"]
      [] cmd \in {"email", "e"} ->
             [call |-> "window.location.href",
              url  |-> "mailto:info@citizensciencemusic.com"]

(* C37: in the links revision, while the component is mounted, the step in  *)
(* which the deferred action of bandcamp/bc, instagram/ig, audius/au or     *)
(* email/e runs performs the outbound side effect of that command exactly   *)
(* once (the profile opened in a new browsing context, or the navigation    *)
(* to the mailto: URI), appends exactly one line to the output log and      *)
(* leaves the active view and the player state as they are; no other step   *)
(* performs an outbound side effect, and nothing else is written.           *)
C37_LinkCommands ==
    /\ [][(variant = "links" /\ mounted /\ DeferredRuns
                /\ Head(timers).cmd \in LinkKeywords)
              => /\ outbound' = Append(outbound, LinkEffect(Head(timers).cmd))
                 /\ Len(output') = Len(output) + 1
                 /\ UNCHANGED <<currentView, activePlayer, iframeError,
                                playing, visuals, commandHistory,
                                historyIndex, input>>]_vars
    /\ [][outbound' # outbound
              => /\ variant = "links"
                 /\ DeferredRuns
                 /\ Head(timers).cmd \in LinkKeywords]_vars

\* the email command ran in the player view with the player loaded
C37_Witness ==
    /\ variant = "links"
    /\ mounted
    /\ commandHistory = <<"sc", "e">>
    /\ currentView = "player"
    /\ activePlayer = "soundcloud"
    /\ timers = <<>>
    /\ Len(outbound) = 1
    /\ outbound[1].call = "window.location.href"
    /\ output[Len(output)] = "Opening email client..."

(* C38: every outbound side effect (a URL opened, the navigation to the     *)
(* mail URI) happens in a step taken while the component is mounted.        *)
C38_NoEffectAfterUnmount ==
    [][outbound' # outbound => mounted]_vars

=============================================================================
